---- MODULE Spec2Model ----
(***************************************************************************)
(* Model of src/main.py: the PostgreSQL-backed store of the bot (users,    *)
(* banned_users, admins, giveaways, participants, settings), the helper    *)
(* coroutines that read and write it, the /start handler and the           *)
(* background task check_expired_giveaways.                                *)
(*                                                                         *)
(* A table is a function from its primary key to its row; a key outside    *)
(* the function's DOMAIN has no row.  A nullable column holds Null (<<>>)  *)
(* or <<v>>.  Every SQL statement is one atomic step (autocommit), every   *)
(* await between two statements is a point where other coroutines run.     *)
(***************************************************************************)
EXTENDS Integers, Sequences, FiniteSets, TLC

VARIABLES
    users,          \* table users: user_id -> [balance, theft_attempts]
    banned_users,   \* table banned_users: set of user_id
    admins,         \* table admins: set of user_id
    pending,        \* update_user_balance calls in flight: <<user_id, delta>> -> count
    doneSum,        \* history: user_id -> sum of the deltas of its completed calls
    stray,          \* history: user_id -> a call on it was started before it had a row
    issued,         \* history: number of update_user_balance calls started
    start_pc,       \* position of each user's cmd_start coroutine
    giveaways,      \* table giveaways: id -> [status, end_date, winner_id]
    participants,   \* table participants: set of <<user_id, giveaway_id>>
    now,            \* the wall clock read by datetime.now()
    sched_pc,       \* position of the check_expired_giveaways task
    errlog,         \* whether logging.error was called by the task
    settings,       \* table settings: key -> value
    lastSet,        \* history: key -> Null or <<v>>, the last completed set_setting
    boot_pc,        \* number of keys init_settings has inserted; Booted once it is done
    ret             \* what the last operation returned to its caller

ledgerVars == <<users, banned_users, admins, pending, doneSum, stray, issued,
               start_pc>>
giveawayVars == <<giveaways, participants, now, sched_pc, errlog>>
settingVars == <<settings, lastSet, boot_pc>>
vars == <<users, banned_users, admins, pending, doneSum, stray, issued, start_pc,
          giveaways, participants, now, sched_pc, errlog,
          settings, lastSet, boot_pc, ret>>

(***************************************************************************)
(* Bounds of the model.                                                    *)
(***************************************************************************)
NUsers == 2
MaxCalls == 2

Users == 1..NUsers

(***************************************************************************)
(* Program constants.                                                      *)
(***************************************************************************)
\* SUPER_ADMINS comes from the environment; one of the modelled users is one.
SUPER_ADMINS == {1}

Null == <<>>
Some(v) == <<v>>

\* The deltas callers pass: a debit and a credit.  The sums the model
\* reaches stay far inside the range of the INTEGER column, so the
\* "integer out of range" error of the UPDATE is not modelled.
Deltas == {-2, 3}

NoRet == [op |-> "none"]

(***************************************************************************)
(* Ledger: get_user_balance, update_user_balance, get_random_user.         *)
(***************************************************************************)
\* A fresh row as cmd_start inserts it: balance 0, counters at their default.
NewUserRow == [balance |-> Some(0), theft_attempts |-> 0]

get_user_balance_first_row(tbl, user_id) ==
    IF DOMAIN tbl = {} THEN 0
    ELSE LET first == CHOOSE u \in DOMAIN tbl : \A w \in DOMAIN tbl : u <= w
         IN  IF tbl[first].balance = Null THEN 0 ELSE tbl[first].balance[1]

\* SELECT balance FROM users WHERE user_id=$1; None (no row, or NULL) reads 0.
get_user_balance(tbl, user_id) ==
    IF user_id \notin DOMAIN tbl THEN 0
    ELSE IF tbl[user_id].balance = Null THEN 0
    ELSE tbl[user_id].balance[1]

\* SQL: NULL + x is NULL.
SqlAdd(balance, delta) ==
    IF balance = Null THEN Null ELSE Some(balance[1] + delta)

update_user_balance_assign(tbl, user_id, delta) ==
    IF user_id \in DOMAIN tbl
    THEN [tbl EXCEPT ![user_id].balance = Some(delta)]
    ELSE tbl

\* UPDATE users SET balance = balance + $1 WHERE user_id=$2: the table afterwards.
update_user_balance(tbl, user_id, delta) ==
    IF user_id \in DOMAIN tbl
    THEN [tbl EXCEPT ![user_id].balance = SqlAdd(@, delta)]
    ELSE tbl

\* The rows the SELECT of get_random_user ranges over.
RandomUserRows(tbl, banned, exclude_id) ==
    {u \in DOMAIN tbl : u # exclude_id /\ u \notin banned}

\* ORDER BY RANDOM() LIMIT 1: any of the rows, or None when there is none.
get_random_user(tbl, banned, exclude_id) ==
    IF RandomUserRows(tbl, banned, exclude_id) = {}
    THEN {Null}
    ELSE {Some(u) : u \in RandomUserRows(tbl, banned, exclude_id)}

CallKeys == Users \X Deltas

\* A caller starts update_user_balance(u, d); the statement has not run yet.
InvokeUpdate(u, d) ==
    /\ issued < MaxCalls
    /\ issued' = issued + 1
    /\ pending' = [pending EXCEPT ![<<u, d>>] = @ + 1]
    /\ stray' = [stray EXCEPT ![u] = @ \/ u \notin DOMAIN users]
    /\ ret' = NoRet
    /\ UNCHANGED <<users, banned_users, admins, doneSum, start_pc>>
    /\ UNCHANGED giveawayVars
    /\ UNCHANGED settingVars

\* The UPDATE of a call in flight runs, atomically, and the call returns.
ExecuteUpdate(u, d) ==
    /\ pending[<<u, d>>] > 0
    /\ pending' = [pending EXCEPT ![<<u, d>>] = @ - 1]
    /\ users' = update_user_balance(users, u, d)
    /\ doneSum' = [doneSum EXCEPT ![u] = @ + d]
    /\ ret' = NoRet
    /\ UNCHANGED <<banned_users, admins, stray, issued, start_pc>>
    /\ UNCHANGED giveawayVars
    /\ UNCHANGED settingVars

\* get_user_balance(u) is called and returns.
GetUserBalance(u) ==
    /\ ret' = [op |-> "get_user_balance", user_id |-> u,
               result |-> get_user_balance(users, u)]
    /\ UNCHANGED ledgerVars
    /\ UNCHANGED giveawayVars
    /\ UNCHANGED settingVars

\* get_random_user(exclude_id) is called and returns one of its possible rows.
GetRandomUser(exclude_id) ==
    /\ \E t \in get_random_user(users, banned_users, exclude_id) :
          ret' = [op |-> "get_random_user", exclude_id |-> exclude_id, result |-> t]
    /\ UNCHANGED ledgerVars
    /\ UNCHANGED giveawayVars
    /\ UNCHANGED settingVars

(***************************************************************************)
(* Helpers of the handlers: is_super_admin, is_junior_admin, is_admin,     *)
(* is_banned.                                                              *)
(***************************************************************************)
is_super_admin(user_id) == user_id \in SUPER_ADMINS

is_junior_admin(adm, user_id) == user_id \in adm

is_admin(adm, user_id) == is_super_admin(user_id) \/ is_junior_admin(adm, user_id)

is_banned(banned, user_id) == user_id \in banned

InsertUser_upsert(tbl, user_id) ==
    IF user_id \in DOMAIN tbl
    THEN [tbl EXCEPT ![user_id] = NewUserRow]
    ELSE tbl @@ (user_id :> NewUserRow)

\* INSERT INTO users (...) VALUES (..., 0) ON CONFLICT (user_id) DO NOTHING.
InsertUser(tbl, user_id) ==
    IF user_id \in DOMAIN tbl THEN tbl ELSE tbl @@ (user_id :> NewUserRow)

(***************************************************************************)
(* cmd_start, one step per awaited store call.                             *)
(*   "idle"     no /start of this user is being handled                    *)
(*   "is_admin" is_banned returned True, is_admin is being awaited         *)
(*   "insert"   the ban check let the user through, the INSERT is next     *)
(***************************************************************************)
\* What the handler answered when it returned.
StartRet(u, o) == [op |-> "cmd_start", user_id |-> u, outcome |-> o]

\* `await is_banned(user_id)`: the first operand of the `and`.
CmdStartIsBanned(u) ==
    /\ start_pc[u] = "idle"
    /\ start_pc' = [start_pc EXCEPT ![u] =
                        IF is_banned(banned_users, u) THEN "is_admin" ELSE "insert"]
    /\ ret' = NoRet
    /\ UNCHANGED <<users, banned_users, admins, pending, doneSum, stray, issued>>
    /\ UNCHANGED giveawayVars
    /\ UNCHANGED settingVars

\* `not await is_admin(user_id)`: a banned non-admin is answered and the
\* handler returns; a banned admin goes on to the INSERT.
CmdStartIsAdmin(u) ==
    /\ start_pc[u] = "is_admin"
    /\ \/ /\ ~is_admin(admins, u)
          /\ start_pc' = [start_pc EXCEPT ![u] = "idle"]
          /\ ret' = StartRet(u, "blocked")
       \/ /\ is_admin(admins, u)
          /\ start_pc' = [start_pc EXCEPT ![u] = "insert"]
          /\ ret' = NoRet
    /\ UNCHANGED <<users, banned_users, admins, pending, doneSum, stray, issued>>
    /\ UNCHANGED giveawayVars
    /\ UNCHANGED settingVars

\* The INSERT runs; what follows it (check_subscription, the greeting)
\* touches no table.
CmdStartInsert(u) ==
    /\ start_pc[u] = "insert"
    /\ start_pc' = [start_pc EXCEPT ![u] = "idle"]
    /\ users' = InsertUser(users, u)
    /\ ret' = StartRet(u, "ok")
    /\ UNCHANGED <<banned_users, admins, pending, doneSum, stray, issued>>
    /\ UNCHANGED giveawayVars
    /\ UNCHANGED settingVars

\* The INSERT raises: `except Exception` logs, answers and returns.
CmdStartInsertFails(u) ==
    /\ start_pc[u] = "insert"
    /\ start_pc' = [start_pc EXCEPT ![u] = "idle"]
    /\ ret' = StartRet(u, "db_error")
    /\ UNCHANGED <<users, banned_users, admins, pending, doneSum, stray, issued>>
    /\ UNCHANGED giveawayVars
    /\ UNCHANGED settingVars

(***************************************************************************)
(* Admin actions whose handlers are not part of the file: a ban entry and  *)
(* a junior admin are added.                                               *)
(***************************************************************************)
BanUser(u) ==
    /\ u \notin banned_users
    /\ banned_users' = banned_users \cup {u}
    /\ ret' = NoRet
    /\ UNCHANGED <<users, admins, pending, doneSum, stray, issued, start_pc>>
    /\ UNCHANGED giveawayVars
    /\ UNCHANGED settingVars

AddAdmin(u) ==
    /\ u \notin admins
    /\ admins' = admins \cup {u}
    /\ ret' = NoRet
    /\ UNCHANGED <<users, banned_users, pending, doneSum, stray, issued, start_pc>>
    /\ UNCHANGED giveawayVars
    /\ UNCHANGED settingVars

(***************************************************************************)
(* Time.  The clock is a number of minutes; the code compares timestamps   *)
(* as TEXT, in the format of strftime: zero-padded decimal fields.  The    *)
(* model keeps one two-digit field and compares the digit strings.         *)
(***************************************************************************)
StartTime == 8
MaxTime == 11
MaxGiveaways == 1

Times == StartTime..MaxTime

\* datetime.strftime("%M"): two decimal digits, zero-padded.
strftime(t) == <<t \div 10, t % 10>>

\* The order of TEXT values: lexicographic, a proper prefix first.
RECURSIVE TextLess(_, _)
TextLess(a, b) ==
    IF b = <<>> THEN FALSE
    ELSE IF a = <<>> THEN TRUE
    ELSE IF a[1] # b[1] THEN a[1] < b[1]
    ELSE TextLess(Tail(a), Tail(b))

\* Time passes.
Tick ==
    /\ now < MaxTime
    /\ now' = now + 1
    /\ ret' = NoRet
    /\ UNCHANGED <<giveaways, participants, sched_pc, errlog>>
    /\ UNCHANGED ledgerVars
    /\ UNCHANGED settingVars

(***************************************************************************)
(* Giveaway handlers that are not part of the file, after the              *)
(* specification's section 4.7: create, enroll and the admin's draw.       *)
(***************************************************************************)
\* The winner_id a draw stores: a participant, or NULL when there is none.
DrawWinners(parts, g) ==
    IF {u \in Users : <<u, g>> \in parts} = {}
    THEN {Null}
    ELSE {Some(u) : u \in {w \in Users : <<w, g>> \in parts}}

\* id SERIAL: rows are never deleted, so the next id is the row count plus one.
CreateGiveaway(t) ==
    /\ sched_pc # "not_started"
    /\ Cardinality(DOMAIN giveaways) < MaxGiveaways
    /\ giveaways' = giveaways @@
           ((Cardinality(DOMAIN giveaways) + 1) :>
               [status |-> "active", end_date |-> strftime(t), winner_id |-> Null])
    /\ ret' = NoRet
    /\ UNCHANGED <<participants, now, sched_pc, errlog>>
    /\ UNCHANGED ledgerVars
    /\ UNCHANGED settingVars

Enroll(u, g) ==
    /\ g \in DOMAIN giveaways
    /\ giveaways[g].status = "active"
    /\ ~TextLess(giveaways[g].end_date, strftime(now))
    /\ <<u, g>> \notin participants
    /\ participants' = participants \cup {<<u, g>>}
    /\ ret' = NoRet
    /\ UNCHANGED <<giveaways, now, sched_pc, errlog>>
    /\ UNCHANGED ledgerVars
    /\ UNCHANGED settingVars

AdminDraw(g) ==
    /\ g \in DOMAIN giveaways
    /\ giveaways[g].status = "active"
    /\ \E w \in DrawWinners(participants, g) :
          giveaways' = [giveaways EXCEPT ![g].status = "completed",
                                         ![g].winner_id = w]
    /\ ret' = NoRet
    /\ UNCHANGED <<participants, now, sched_pc, errlog>>
    /\ UNCHANGED ledgerVars
    /\ UNCHANGED settingVars

(***************************************************************************)
(* check_expired_giveaways: the task on_startup creates.                   *)
(*   "not_started"  on_startup has not created the task yet                *)
(*   "sleep"        in asyncio.sleep(600)                                  *)
(*   "scan"         woken, about to acquire a connection and run UPDATE    *)
(***************************************************************************)
Expired_inclusive(row, nowText) ==
    row.status = "active" /\ ~TextLess(nowText, row.end_date)

\* WHERE status='active' AND end_date < $1
Expired(row, nowText) ==
    row.status = "active" /\ TextLess(row.end_date, nowText)

\* UPDATE giveaways SET status='completed' WHERE ...: the table afterwards.
expire_giveaways(tbl, nowText) ==
    [g \in DOMAIN tbl |->
        IF Expired(tbl[g], nowText)
        THEN [tbl[g] EXCEPT !.status = "completed"]
        ELSE tbl[g]]

\* on_startup: asyncio.create_task(check_expired_giveaways()).
StartTask ==
    /\ sched_pc = "not_started"
    /\ sched_pc' = "sleep"
    /\ ret' = NoRet
    /\ UNCHANGED <<giveaways, participants, now, errlog>>
    /\ UNCHANGED ledgerVars
    /\ UNCHANGED settingVars

\* asyncio.sleep(600) returns.
Wake ==
    /\ sched_pc = "sleep"
    /\ sched_pc' = "scan"
    /\ ret' = NoRet
    /\ UNCHANGED <<giveaways, participants, now, errlog>>
    /\ UNCHANGED ledgerVars
    /\ UNCHANGED settingVars

\* The body of the try: now is read, the UPDATE runs, the loop goes round.
ScanOk ==
    /\ sched_pc = "scan"
    /\ giveaways' = expire_giveaways(giveaways, strftime(now))
    /\ sched_pc' = "sleep"
    /\ ret' = [op |-> "scan",
               completed |-> {g \in DOMAIN giveaways : giveaways'[g] # giveaways[g]}]
    /\ UNCHANGED <<participants, now, errlog>>
    /\ UNCHANGED ledgerVars
    /\ UNCHANGED settingVars

ScanFails_dies ==
    /\ sched_pc = "scan"
    /\ errlog' = TRUE
    /\ sched_pc' = "dead"
    /\ ret' = NoRet
    /\ UNCHANGED <<giveaways, participants, now>>
    /\ UNCHANGED ledgerVars
    /\ UNCHANGED settingVars

\* acquire or execute raises: `except Exception` logs and the loop goes round.
ScanFails ==
    /\ sched_pc = "scan"
    /\ errlog' = TRUE
    /\ sched_pc' = "sleep"
    /\ ret' = NoRet
    /\ UNCHANGED <<giveaways, participants, now>>
    /\ UNCHANGED ledgerVars
    /\ UNCHANGED settingVars

(***************************************************************************)
(* Settings: DEFAULT_SETTINGS, init_settings, get_setting, set_setting.    *)
(***************************************************************************)
NTuned == 2

\* The keys of DEFAULT_SETTINGS, in the order the dict is iterated.
SettingKeys ==
    << "random_attack_cost", "targeted_attack_cost", "theft_cooldown_minutes",
       "theft_success_chance", "theft_defense_chance", "theft_defense_penalty",
       "casino_win_chance", "min_theft_amount", "max_theft_amount" >>

DEFAULT_SETTINGS ==
    [ random_attack_cost |-> "0",
      targeted_attack_cost |-> "50",
      theft_cooldown_minutes |-> "30",
      theft_success_chance |-> "40",
      theft_defense_chance |-> "20",
      theft_defense_penalty |-> "10",
      casino_win_chance |-> "30",
      min_theft_amount |-> "5",
      max_theft_amount |-> "15" ]

KeySet == {SettingKeys[i] : i \in 1..Len(SettingKeys)}

\* The keys the model's admin tunes, and the values written.
TunedKeys == {SettingKeys[i] : i \in 1..NTuned}
SettingValues == {"", "0", "7"}

Booted == Len(SettingKeys)

\* INSERT INTO settings ... ON CONFLICT (key) DO NOTHING.
InsertSetting(tbl, key, value) ==
    IF key \in DOMAIN tbl THEN tbl ELSE tbl @@ (key :> value)

\* fetchval, then `value if value else DEFAULT_SETTINGS[key]`: None (no row)
\* and the empty string are both falsy.
get_setting(tbl, key) ==
    IF key \notin DOMAIN tbl THEN DEFAULT_SETTINGS[key]
    ELSE IF tbl[key] = "" THEN DEFAULT_SETTINGS[key]
    ELSE tbl[key]

\* UPDATE settings SET value=$1 WHERE key=$2: the table afterwards.
set_setting(tbl, key, value) ==
    IF key \in DOMAIN tbl THEN [tbl EXCEPT ![key] = value] ELSE tbl

\* One round of the loop of init_settings (run by init_db, from on_startup).
InitSettingsStep ==
    /\ boot_pc < Booted
    /\ settings' = InsertSetting(settings, SettingKeys[boot_pc + 1],
                                 DEFAULT_SETTINGS[SettingKeys[boot_pc + 1]])
    /\ boot_pc' = boot_pc + 1
    /\ ret' = NoRet
    /\ UNCHANGED lastSet
    /\ UNCHANGED ledgerVars
    /\ UNCHANGED giveawayVars

\* The loop of __main__: start_polling raised, the bot starts again and
\* on_startup runs init_db once more on the same database.
Restart ==
    /\ boot_pc > 0
    /\ boot_pc' = 0
    /\ ret' = NoRet
    /\ UNCHANGED <<settings, lastSet>>
    /\ UNCHANGED ledgerVars
    /\ UNCHANGED giveawayVars

\* Handlers run once on_startup has returned.
GetSetting(key) ==
    /\ boot_pc = Booted
    /\ ret' = [op |-> "get_setting", key |-> key, result |-> get_setting(settings, key)]
    /\ UNCHANGED settingVars
    /\ UNCHANGED ledgerVars
    /\ UNCHANGED giveawayVars

SetSetting(key, value) ==
    /\ boot_pc = Booted
    /\ settings' = set_setting(settings, key, value)
    /\ lastSet' = [lastSet EXCEPT ![key] = Some(value)]
    /\ ret' = [op |-> "set_setting", key |-> key, value |-> value]
    /\ UNCHANGED boot_pc
    /\ UNCHANGED ledgerVars
    /\ UNCHANGED giveawayVars

(***************************************************************************)
(* Initial states.                                                         *)
(***************************************************************************)
EmptyTable == <<>>

\* The settings table once init_settings has run on an empty database.
DefaultSettingsTable == [k \in KeySet |-> DEFAULT_SETTINGS[k]]

LedgerInit ==
    /\ users = EmptyTable
    /\ banned_users = {}
    /\ admins = {}
    /\ pending = [k \in CallKeys |-> 0]
    /\ doneSum = [u \in Users |-> 0]
    /\ stray = [u \in Users |-> FALSE]
    /\ issued = 0
    /\ start_pc = [u \in Users |-> "idle"]

GiveawayInit ==
    /\ giveaways = EmptyTable
    /\ participants = {}
    /\ now = StartTime
    /\ sched_pc = "not_started"
    /\ errlog = FALSE

\* The bot after on_startup on an empty database: the tables exist and are
\* empty but for the default settings, the task sleeps, no handler has run.
Init ==
    /\ LedgerInit
    /\ giveaways = EmptyTable
    /\ participants = {}
    /\ now = StartTime
    /\ sched_pc = "sleep"
    /\ errlog = FALSE
    /\ settings = DefaultSettingsTable
    /\ lastSet = [k \in KeySet |-> Null]
    /\ boot_pc = Booted
    /\ ret = NoRet

(***************************************************************************)
(* Spec: the ledger and the /start handler, running concurrently, while    *)
(* users get banned.                                                       *)
(***************************************************************************)
Next ==
    \/ \E u \in Users, d \in Deltas : InvokeUpdate(u, d)
    \/ \E u \in Users, d \in Deltas : ExecuteUpdate(u, d)
    \/ \E u \in Users : CmdStartIsBanned(u)
    \/ \E u \in Users : CmdStartIsAdmin(u)
    \/ \E u \in Users : CmdStartInsert(u)
    \/ \E u \in Users : CmdStartInsertFails(u)
    \/ \E u \in Users : BanUser(u)

Spec == Init /\ [][Next]_vars

(***************************************************************************)
(* SpecTarget: the same, with junior admins being added and with the       *)
(* target selection of the theft handler.                                  *)
(***************************************************************************)
NextTarget ==
    \/ Next
    \/ \E u \in Users : AddAdmin(u)
    \/ \E u \in Users : GetRandomUser(u)

SpecTarget == Init /\ [][NextTarget]_vars

(***************************************************************************)
(* SpecGiveaway: the giveaway tables, the clock and the background task.   *)
(* It starts from a database in which user 1 is registered and has been    *)
(* credited once, before on_startup has created the task.                  *)
(***************************************************************************)
InitGiveaway ==
    /\ users = (1 :> [balance |-> Some(3), theft_attempts |-> 0])
    /\ banned_users = {}
    /\ admins = {}
    /\ pending = [k \in CallKeys |-> 0]
    /\ doneSum = [u \in Users |-> IF u = 1 THEN 3 ELSE 0]
    /\ stray = [u \in Users |-> FALSE]
    /\ issued = 1
    /\ start_pc = [u \in Users |-> "idle"]
    /\ GiveawayInit
    /\ settings = DefaultSettingsTable
    /\ lastSet = [k \in KeySet |-> Null]
    /\ boot_pc = Booted
    /\ ret = NoRet

NextGiveaway ==
    \/ StartTask
    \/ Tick
    \/ \E t \in Times : CreateGiveaway(t)
    \/ \E u \in Users, g \in 1..MaxGiveaways : Enroll(u, g)
    \/ \E g \in 1..MaxGiveaways : AdminDraw(g)
    \/ Wake
    \/ ScanOk
    \/ ScanFails

SpecGiveaway == InitGiveaway /\ [][NextGiveaway]_vars

\* The event loop runs a task that can run, and the store does not fail
\* for ever: a scan that can succeed again and again eventually does.
FairGiveaway ==
    /\ InitGiveaway
    /\ [][NextGiveaway]_vars
    /\ WF_vars(StartTask)
    /\ WF_vars(Wake)
    /\ SF_vars(ScanOk)

(***************************************************************************)
(* SpecSettings: on_startup fills the settings table, then the admin's     *)
(* handlers read and write it; the bot may be started again.               *)
(***************************************************************************)
InitSettings ==
    /\ LedgerInit
    /\ GiveawayInit
    /\ settings = EmptyTable
    /\ lastSet = [k \in KeySet |-> Null]
    /\ boot_pc = 0
    /\ ret = NoRet

NextSettings ==
    \/ InitSettingsStep
    \/ Restart
    \/ \E k \in TunedKeys : GetSetting(k)
    \/ \E k \in TunedKeys, v \in SettingValues : SetSetting(k, v)

SpecSettings == InitSettings /\ [][NextSettings]_vars

(***************************************************************************)
(* SpecRead: get_user_balance as a function of the table, over every       *)
(* table the schema allows (balance is a nullable INTEGER).                *)
(***************************************************************************)
ReadBalances == {Null, Some(-2), Some(0), Some(1), Some(3)}

ReadTables ==
    UNION {[S -> [balance : ReadBalances, theft_attempts : {0}]] : S \in SUBSET Users}

InitRead ==
    /\ users \in ReadTables
    /\ banned_users = {}
    /\ admins = {}
    /\ pending = [k \in CallKeys |-> 0]
    /\ doneSum = [u \in Users |-> 0]
    /\ stray = [u \in Users |-> FALSE]
    /\ issued = 0
    /\ start_pc = [u \in Users |-> "idle"]
    /\ giveaways = EmptyTable
    /\ participants = {}
    /\ now = StartTime
    /\ sched_pc = "sleep"
    /\ errlog = FALSE
    /\ settings = DefaultSettingsTable
    /\ lastSet = [k \in KeySet |-> Null]
    /\ boot_pc = Booted
    /\ ret = NoRet

NextRead == \E u \in Users : GetUserBalance(u)

SpecRead == InitRead /\ [][NextRead]_vars

(***************************************************************************)
(* Properties of the ledger.                                               *)
(***************************************************************************)
\* C1: whatever the interleaving of the update_user_balance calls on a
\* user that had its row when each of them was started, its balance is the
\* balance it was registered with (0) plus the sum of the deltas of the
\* calls that have completed: no update is lost.
C1_NoLostUpdate ==
    \A u \in DOMAIN users :
        ~stray[u] => users[u].balance = Some(0 + doneSum[u])

\* C1, witness: a registered user on which a debit and a credit have both
\* completed.
C1_Witness ==
    \E u \in DOMAIN users :
        /\ ~stray[u]
        /\ doneSum[u] = 1
        /\ issued = 2
        /\ users[u].balance = Some(1)

\* C2: a debit larger than the balance is refused, so that no balance is
\* ever negative.
C2_BalanceNeverNegative ==
    \A u \in DOMAIN users :
        users[u].balance # Null => users[u].balance[1] >= 0

\* C9: a completed credit of a on any user id, registered or not, raises
\* what get_user_balance reads for it by a.
C9_CreditNeverDropped ==
    [][\A u \in Users :
          doneSum'[u] > doneSum[u] =>
              get_user_balance(users', u) =
                  get_user_balance(users, u) + (doneSum'[u] - doneSum[u])]_vars

\* A target the theft handler may rob: registered, not the actor, not
\* banned, and with something to steal.
C7_Eligible(actor, u) ==
    /\ u \in DOMAIN users
    /\ u # actor
    /\ u \notin banned_users
    /\ get_user_balance(users, u) # 0

\* C7: get_random_user returns a registered user that is not the actor,
\* is not banned and has a balance other than zero, and returns None
\* exactly when there is no such user.
C7_OnlyEligibleTarget ==
    ret.op = "get_random_user" =>
        /\ ret.result # Null => C7_Eligible(ret.exclude_id, ret.result[1])
        /\ ret.result = Null <=> ~\E u \in Users : C7_Eligible(ret.exclude_id, u)

(***************************************************************************)
(* Properties of cmd_start.                                                *)
(***************************************************************************)
\* C10: a step of the /start handler of u deletes no row and changes no
\* existing row; the only row it may create is u's, by the INSERT, with
\* balance 0 and the counters at 0, and once the INSERT has returned u has
\* a row; a banned user goes through the admin check, and one that is not
\* an admin there is answered and the handler returns with the table as
\* it was.
C10_StartInsertionOnly ==
    [][\A u \in Users :
          start_pc'[u] # start_pc[u] =>
              /\ DOMAIN users \subseteq DOMAIN users'
              /\ \A w \in DOMAIN users : users'[w] = users[w]
              /\ DOMAIN users' \subseteq DOMAIN users \cup {u}
              /\ u \in DOMAIN users' \ DOMAIN users =>
                     /\ start_pc[u] = "insert"
                     /\ users'[u] = [balance |-> Some(0), theft_attempts |-> 0]
              /\ ret' = StartRet(u, "ok") => u \in DOMAIN users'
              /\ (start_pc[u] = "idle" /\ u \in banned_users) =>
                     /\ start_pc'[u] = "is_admin"
                     /\ users' = users
              /\ (start_pc[u] = "is_admin"
                    /\ u \notin SUPER_ADMINS /\ u \notin admins) =>
                     /\ start_pc'[u] = "idle"
                     /\ ret' = StartRet(u, "blocked")
                     /\ users' = users]_vars

\* C10, witness: a later /start of a user whose balance has moved has
\* returned, and a
\* banned user without a row is there too.
C10_Witness ==
    /\ ret.op = "cmd_start"
    /\ ret.outcome = "ok"
    /\ ret.user_id \in DOMAIN users
    /\ users[ret.user_id].balance = Some(3)
    /\ \E w \in banned_users : w \notin DOMAIN users

(***************************************************************************)
(* Properties of the giveaway scheduler.                                   *)
(***************************************************************************)
ParticipantsOf(g) == {u \in Users : <<u, g>> \in participants}

\* The end time of the row is before the clock, as times.
EndTimePassed(row) == \E t \in Times : row.end_date = strftime(t) /\ t < now

\* C4: a completed giveaway that has participants has a winner among them:
\* completing an expired giveaway draws.
C4_CompletedHasWinner ==
    \A g \in DOMAIN giveaways :
        (giveaways[g].status = "completed" /\ ParticipantsOf(g) # {}) =>
            /\ giveaways[g].winner_id # Null
            /\ giveaways[g].winner_id[1] \in ParticipantsOf(g)

\* C5: a giveaway that is active with its end time in the past is
\* eventually completed, whether or not it has participants and whether or
\* not scans have failed before.
C5_ExpiredEventuallyCompleted ==
    \A g \in 1..MaxGiveaways :
        (g \in DOMAIN giveaways
            /\ giveaways[g].status = "active"
            /\ EndTimePassed(giveaways[g]))
        ~> (g \in DOMAIN giveaways /\ giveaways[g].status = "completed")

\* C5, witness: a scan that followed a failed one has completed a giveaway without
\* participants, and its winner is empty.
C5_Witness ==
    /\ ret.op = "scan"
    /\ errlog
    /\ \E g \in ret.completed :
          /\ ParticipantsOf(g) = {}
          /\ giveaways[g].status = "completed"
          /\ giveaways[g].winner_id = Null

\* C6: a scan, failed or not, creates and deletes no giveaway; a row it
\* changes was active with its end time strictly in the past, and the only
\* change is that its status is completed; participants and users are as
\* they were.
C6_ScanFrame ==
    [][(sched_pc = "scan" /\ sched_pc' = "sleep") =>
          /\ DOMAIN giveaways' = DOMAIN giveaways
          /\ \A g \in DOMAIN giveaways :
                giveaways'[g] # giveaways[g] =>
                    /\ giveaways[g].status = "active"
                    /\ EndTimePassed(giveaways[g])
                    /\ giveaways'[g] = [giveaways[g] EXCEPT !.status = "completed"]
          /\ participants' = participants
          /\ users' = users]_vars

\* C6, witness: a scan has just run over a giveaway that had expired after the admin
\* had drawn it, and has left it, its winner and the winner's row alone.
C6_Witness ==
    /\ ret.op = "scan"
    /\ ret.completed = {}
    /\ \E g \in DOMAIN giveaways :
          /\ giveaways[g].status = "completed"
          /\ EndTimePassed(giveaways[g])
          /\ giveaways[g].winner_id # Null
          /\ giveaways[g].winner_id[1] \in DOMAIN users

(***************************************************************************)
(* Properties of get_user_balance and of the settings.                     *)
(***************************************************************************)
\* C3: get_user_balance(u) returns 0 when u has no row or its balance is
\* NULL and the stored balance otherwise, and changes no table.
C3_BalanceRead ==
    [][ret'.op = "get_user_balance" =>
          /\ UNCHANGED <<ledgerVars, giveawayVars, settingVars>>
          /\ \/ /\ ret'.user_id \notin DOMAIN users
                /\ ret'.result = 0
             \/ /\ ret'.user_id \in DOMAIN users
                /\ users[ret'.user_id].balance = Null
                /\ ret'.result = 0
             \/ /\ ret'.user_id \in DOMAIN users
                /\ users[ret'.user_id].balance = Some(ret'.result)]_vars

\* C3, witness: the balance of a row whose balance is NULL has been read as 0, next to
\* a row with another balance.
C3_Witness ==
    /\ ret.op = "get_user_balance"
    /\ ret.user_id \in DOMAIN users
    /\ users[ret.user_id].balance = Null
    /\ ret.result = 0
    /\ \E w \in DOMAIN users : users[w].balance = Some(3)

\* C8: get_setting(k) returns the value of the last completed
\* set_setting(k, v), whatever the string v, and DEFAULT_SETTINGS[k] when
\* there has been none.
C8_ReadsLastWrite ==
    ret.op = "get_setting" =>
        ret.result = (IF lastSet[ret.key] # Null
                      THEN lastSet[ret.key][1]
                      ELSE DEFAULT_SETTINGS[ret.key])

====
